---- MODULE Spec2Model ----
(***************************************************************************)
(* Media-sharing backend: an object store (Azure Blob) and a relational    *)
(* store (Azure SQL) coordinated by Express route handlers.                *)
(*                                                                         *)
(* Every handler is an async function.  It runs synchronously up to its    *)
(* first store call; each store call takes effect at the store at some     *)
(* moment, and the handler's continuation (ending in the response) runs    *)
(* later.  Other requests interleave between these moments.                *)
(*                                                                         *)
(* Strings (file names, blob names, urls, comment text) are sequences of   *)
(* tokens; a token is a run of characters that the code never looks into.  *)
(***************************************************************************)
EXTENDS Integers, Sequences, FiniteSets, TLC

----------------------------------------------------------------------------
(* Bounds of the model *)

NumReqs == 2        \* request slots, i.e. requests in flight at once
MaxPhotos == 2      \* Photo ids ever assigned
MaxComments == 1    \* Comment ids ever assigned
MaxClock == 1       \* largest value of Date.now()
NumRand == 1        \* distinct values of the random suffix

Reqs == 1..NumReqs
PhotoIds == 1..MaxPhotos

----------------------------------------------------------------------------
(* Strings *)

\* The value of a request field that was not sent.
Undefined == <<"undefined">>

\* JavaScript's !s for a string-or-undefined value.
Falsy(s) == s = Undefined \/ s = <<>>

CONTAINER_NAME == "photos"

\* `/${CONTAINER_NAME}/`
Segment == <<"/", CONTAINER_NAME, "/">>

\* Scheme and host of the container's url.
Base == <<"https://account.blob.core.windows.net">>

\* s starts with the tokens of p
StartsWith(s, p) == Len(s) >= Len(p) /\ SubSeq(s, 1, Len(p)) = p

\* String.prototype.includes
Includes(s, p) == \E i \in 1..(Len(s) + 1) : StartsWith(SubSeq(s, i, Len(s)), p)

\* String.prototype.split for a non-empty separator: the sequence of parts.
RECURSIVE SplitFrom(_, _, _)
SplitFrom(s, sep, cur) ==
    IF s = <<>> THEN <<cur>>
    ELSE IF StartsWith(s, sep)
         THEN <<cur>> \o SplitFrom(SubSeq(s, Len(sep) + 1, Len(s)), sep, <<>>)
         ELSE SplitFrom(Tail(s), sep, Append(cur, Head(s)))

Split(s, sep) == SplitFrom(s, sep, <<>>)

\* Array.prototype.pop of a non-empty array: its last element.
Pop(parts) == parts[Len(parts)]

IsSpace(c) == c = " "

\* String.prototype.trim
RECURSIVE TrimStart(_)
TrimStart(s) == IF s # <<>> /\ IsSpace(Head(s)) THEN TrimStart(Tail(s)) ELSE s

RECURSIVE TrimEnd(_)
TrimEnd(s) ==
    IF s # <<>> /\ IsSpace(s[Len(s)]) THEN TrimEnd(SubSeq(s, 1, Len(s) - 1)) ELSE s

Trim(s) == TrimEnd(TrimStart(s))

----------------------------------------------------------------------------
(* Object store client (blob.js) *)

\* const extension = originalName.split('.').pop()
Extension(originalName) == Pop(Split(originalName, <<".">>))

\* `${Date.now()}-${Math.random().toString(36).substring(7)}.${extension}`
BlobName(time, rand, originalName) ==
    <<ToString(time), "-", ToString(rand), ".">> \o Extension(originalName)

\* blockBlobClient.url: the container's url followed by the blob name.
BlobUrl(blobName) == Base \o Segment \o blobName

\* The object a url of the container resolves to: the path below the container.
UrlObject(url) == SubSeq(url, Len(Base) + Len(Segment) + 1, Len(url))

\* The blob name deleteImageFromBlob derives from its argument.
ExtractBlobName(blobNameOrUrl) ==
    IF Includes(blobNameOrUrl, <<CONTAINER_NAME>>)
    THEN LET parts == Split(blobNameOrUrl, Segment)
         IN  IF Len(parts) > 1 THEN parts[2] ELSE blobNameOrUrl
    ELSE blobNameOrUrl

----------------------------------------------------------------------------
(* State *)

VARIABLES
    containerClient,  \* TRUE iff blob.js got its container client at load
    now,              \* Date.now()
    blobs,            \* names of the objects in the container
    Photos,           \* rows of table Photos
    Comments,         \* rows of table Comments
    nextPhotoId,      \* next identity value of Photos.id
    nextCommentId,    \* next identity value of Comments.id
    removed,          \* history: names of the objects a delete-photo has
                      \* removed from the container and no put has written since
    reqs              \* the request handled in each slot

vars == <<containerClient, now, blobs, Photos, Comments,
          nextPhotoId, nextCommentId, removed, reqs>>

stores == <<blobs, Photos, Comments, nextPhotoId, nextCommentId, removed>>

\* Inputs of the requests
FileInputs == {"none", "empty", "data"}     \* req.file: absent, 0 bytes, bytes
TitleInputs == {Undefined, <<>>, <<"Sunset">>}
NameInputs == {<<"sunset", ".", "jpg">>}
\* A JSON value that is truthy and not a string, such as the number 5.
NotAString == <<"not-a-string">>

TextInputs == {Undefined, <<>>, <<" ">>, <<" ", " ">>, <<"Nice!">>,
               <<" ", "Nice!", " ">>, NotAString}

NoInput == [id |-> 0, file |-> "none", title |-> Undefined,
            originalname |-> <<>>, comment_text |-> Undefined]

\* The body of a response: the fields of the row returned, or the rows listed.
NoBody == [id |-> 0, photo_id |-> 0, image_url |-> <<>>, rows |-> <<>>]

\* A slot: the handler (kind), where it stands (pc), the request (input), the
\* handler's locals (blobName, imageUrl), the response (status, body: fixed
\* when the handler's path is decided, pc = "respond", and sent by Respond,
\* which frees the slot), and the record of the store calls the handler made
\* with their outcomes.
IdleReq == [kind |-> "none", pc |-> "idle", input |-> NoInput,
            blobName |-> <<>>, imageUrl |-> <<>>,
            status |-> 0, body |-> NoBody, calls |-> {}]

Init ==
    /\ containerClient \in BOOLEAN
    /\ now = 0
    /\ blobs = {}
    /\ Photos = {}
    /\ Comments = {}
    /\ nextPhotoId = 1
    /\ nextCommentId = 1
    /\ removed = {}
    /\ reqs = [r \in Reqs |-> IdleReq]

Free(r) == reqs[r].pc = "idle"

InFlight(k) == Cardinality({r \in Reqs : reqs[r].kind = k /\ ~Free(r)})

Set(r, rec) == reqs' = [reqs EXCEPT ![r] = rec]

\* The handler's path is decided: the response st/b is sent by Respond.
Decide(q, st, b, call) ==
    [q EXCEPT !.pc = "respond", !.status = st, !.body = b,
              !.calls = @ \cup {call}]

\* Time passes.
Tick ==
    /\ now < MaxClock
    /\ now' = now + 1
    /\ UNCHANGED <<containerClient, stores, reqs>>

\* res.status(...).json(...) at the end of a handler's continuation: the
\* response is sent and the request is over.
Respond(r) ==
    /\ reqs[r].pc = "respond"
    /\ Set(r, IdleReq)
    /\ UNCHANGED <<containerClient, now, stores>>

----------------------------------------------------------------------------
(* POST /photos *)

\* The validation of the request: 0 when it passes, else the status sent.
CreateValidate(file, title) ==
    IF file = "none" THEN 400
    ELSE IF Falsy(title) THEN 400
    ELSE 0

\* uploadImageToBlob up to its upload call throws iff there is no client.
UploadThrowsAtEntry == ~containerClient

\* The request arrives: validation, then uploadImageToBlob up to its await.
StartCreate(r) ==
    /\ Free(r)
    /\ nextPhotoId + InFlight("create") <= MaxPhotos
    /\ \E file \in FileInputs, title \in TitleInputs, name \in NameInputs,
          rand \in 1..NumRand :
         LET q == [IdleReq EXCEPT !.kind = "create",
                      !.input = [NoInput EXCEPT !.file = file, !.title = title,
                                                !.originalname = name]]
             v == CreateValidate(file, title)
         IN  IF v # 0
             THEN Set(r, [q EXCEPT !.pc = "respond", !.status = v])
             ELSE IF UploadThrowsAtEntry
             THEN Set(r, [q EXCEPT !.pc = "respond", !.status = 500,
                                   !.calls = {"put:uninit"}])
             ELSE Set(r, [q EXCEPT !.pc = "put",
                                   !.blobName = BlobName(now, rand, name)])
    /\ UNCHANGED <<containerClient, now, stores>>

\* As AfterPutOk, but the url kept is built from the original file name.
AfterPutOk_OriginalName(q, url) ==
    [q EXCEPT !.pc = "insertPhoto",
              !.imageUrl = Base \o Segment \o q.input.originalname,
              !.calls = @ \cup {"put:ok"}]

\* The handler after uploadImageToBlob returned url: it issues the INSERT.
AfterPutOk(q, url) ==
    [q EXCEPT !.pc = "insertPhoto", !.imageUrl = url,
              !.calls = @ \cup {"put:ok"}]

\* As AfterPutFail, but the error is only logged and the handler goes on.
AfterPutFail_Swallowed(q) ==
    [q EXCEPT !.pc = "insertPhoto", !.imageUrl = BlobUrl(q.blobName),
              !.calls = @ \cup {"put:fail"}]

\* As AfterPutFail, but the upload is tried again.
AfterPutFail_Retry(q) == [q EXCEPT !.pc = "put", !.calls = @ \cup {"put:fail"}]

\* The handler after uploadImageToBlob threw: the catch block answers 500.
AfterPutFail(q) == Decide(q, 500, NoBody, "put:fail")

\* blockBlobClient.upload takes effect (creating or overwriting the blob) or
\* fails; uploadImageToBlob returns blockBlobClient.url or throws.
PutEffect(r) ==
    /\ reqs[r].pc = "put"
    /\ \E ok \in BOOLEAN :
         IF ok
         THEN /\ blobs' = blobs \cup {reqs[r].blobName}
              /\ removed' = removed \ {reqs[r].blobName}
              /\ Set(r, AfterPutOk(reqs[r], BlobUrl(reqs[r].blobName)))
         ELSE /\ UNCHANGED <<blobs, removed>>
              /\ Set(r, AfterPutFail(reqs[r]))
    /\ UNCHANGED <<containerClient, now, Photos, Comments,
                   nextPhotoId, nextCommentId>>

\* INSERT INTO Photos ... OUTPUT INSERTED.* executes or fails.
InsertPhotoEffect(r) ==
    /\ reqs[r].pc = "insertPhoto"
    /\ \E ok \in BOOLEAN :
         IF ok
         THEN LET row == [id |-> nextPhotoId, image_url |-> reqs[r].imageUrl,
                           created_at |-> now]
              IN  /\ Photos' = Photos \cup {row}
                  /\ nextPhotoId' = nextPhotoId + 1
                  /\ Set(r, Decide(reqs[r], 201,
                                   [NoBody EXCEPT !.id = row.id,
                                                  !.image_url = row.image_url],
                                   "insertPhoto:ok"))
         ELSE /\ UNCHANGED <<Photos, nextPhotoId>>
              /\ Set(r, Decide(reqs[r], 500, NoBody, "insertPhoto:fail"))
    /\ UNCHANGED <<containerClient, now, blobs, Comments, nextCommentId,
                   removed>>

----------------------------------------------------------------------------
(* DELETE /photos/:id *)

StartDelete(r) ==
    /\ Free(r)
    /\ \E id \in PhotoIds :
         Set(r, [IdleReq EXCEPT !.kind = "delete", !.pc = "select",
                                !.input = [NoInput EXCEPT !.id = id]])
    /\ UNCHANGED <<containerClient, now, stores>>

\* SELECT image_url FROM Photos WHERE id = @id
SelectImageUrl(id) == {p.image_url : p \in {x \in Photos : x.id = id}}

\* As AfterSelectNone, but the length of the recordset is not looked at.
AfterSelectNone_Unchecked(q) ==
    [q EXCEPT !.pc = "deleteRow", !.calls = @ \cup {"select:none"}]

\* The handler after the SELECT returned no row.
AfterSelectNone(q) == Decide(q, 404, NoBody, "select:none")

\* As AfterSelectFound, but the handler answers once the blob is dealt with,
\* without issuing the DELETE.
AfterSelectFound_NoRowDelete(q, url) ==
    Decide([q EXCEPT !.imageUrl = url], 200, NoBody, "select:found")

\* As AfterSelectFound, but the DELETE is issued without the call of
\* deleteImageFromBlob.
AfterSelectFound_RowOnly(q, url) ==
    [q EXCEPT !.imageUrl = url, !.pc = "deleteRow",
              !.calls = @ \cup {"select:found"}]

\* As AfterSelectFound, but without a client deleteImageFromBlob throws, as
\* uploadImageToBlob does, and the handler's catch answers 500.
AfterSelectFound_Throws(q, url) ==
    LET q1 == [q EXCEPT !.imageUrl = url, !.calls = @ \cup {"select:found"}]
    IN  IF Falsy(url)
        THEN [q1 EXCEPT !.pc = "deleteRow"]
        ELSE IF ~containerClient
        THEN Decide(q1, 500, NoBody, "blobDelete:uninit")
        ELSE [q1 EXCEPT !.pc = "blobDelete"]

\* The handler after the SELECT returned a row with image_url = url: with a
\* url it calls deleteImageFromBlob, which returns at once without a client;
\* then it issues the DELETE.
AfterSelectFound(q, url) ==
    LET q1 == [q EXCEPT !.imageUrl = url, !.calls = @ \cup {"select:found"}]
    IN  IF Falsy(url)
        THEN [q1 EXCEPT !.pc = "deleteRow"]
        ELSE IF ~containerClient
        THEN [q1 EXCEPT !.pc = "deleteRow", !.calls = @ \cup {"blobDelete:uninit"}]
        ELSE [q1 EXCEPT !.pc = "blobDelete"]

SelectEffect(r) ==
    /\ reqs[r].pc = "select"
    /\ \E ok \in BOOLEAN :
         IF ~ok
         THEN Set(r, Decide(reqs[r], 500, NoBody, "select:fail"))
         ELSE LET recordset == SelectImageUrl(reqs[r].input.id)
              IN  IF recordset = {}
                  THEN Set(r, AfterSelectNone(reqs[r]))
                  ELSE \E url \in recordset : Set(r, AfterSelectFound(reqs[r], url))
    /\ UNCHANGED <<containerClient, now, stores>>

\* As AfterBlobDelete, but the catch block throws the error on.
AfterBlobDelete_Rethrown(q, outcome) ==
    IF outcome = "fail"
    THEN Decide(q, 500, NoBody, "blobDelete:fail")
    ELSE [q EXCEPT !.pc = "deleteRow", !.calls = @ \cup {"blobDelete:" \o outcome}]

\* deleteImageFromBlob after deleteIfExists: outcome is "deleted" or "absent"
\* when it completed, "fail" when it threw; the catch block only logs, and
\* the handler goes on to the DELETE.
AfterBlobDelete(q, outcome) ==
    [q EXCEPT !.pc = "deleteRow", !.calls = @ \cup {"blobDelete:" \o outcome}]

\* As DeleteIfExists, but with delete(), which raises BlobNotFound for a blob
\* that does not exist.
DeleteIfExists_Delete(exists) == IF exists THEN "deleted" ELSE "notFound"

\* What deleteIfExists() reports when it completes.
DeleteIfExists(exists) == IF exists THEN "deleted" ELSE "absent"

\* blockBlobClient.deleteIfExists() on the name derived from the url.
BlobDeleteEffect(r) ==
    /\ reqs[r].pc = "blobDelete"
    /\ LET blobName == ExtractBlobName(reqs[r].imageUrl)
       IN  \E ok \in BOOLEAN :
             IF ok
             THEN /\ blobs' = blobs \ {blobName}
                  /\ removed' = removed \cup ({blobName} \cap blobs)
                  /\ Set(r, AfterBlobDelete(reqs[r],
                                             DeleteIfExists(blobName \in blobs)))
             ELSE /\ UNCHANGED <<blobs, removed>>
                  /\ Set(r, AfterBlobDelete(reqs[r], "fail"))
    /\ UNCHANGED <<containerClient, now, Photos, Comments,
                   nextPhotoId, nextCommentId>>

\* As CascadeDelete, but without the cascade.
CascadeDelete_NoAction(id) == Comments

\* ON DELETE CASCADE of Comments.photo_id: the comments left after the
\* photos with id = id are deleted.
CascadeDelete(id) == {c \in Comments : c.photo_id # id}

\* The handler after the DELETE completed with the given rowsAffected.
AfterDeleteRow(q, rowsAffected) ==
    Decide(q, 200, NoBody, "deleteRow:" \o ToString(rowsAffected))

\* As AfterDeleteRowFail, but the error is only logged.
AfterDeleteRowFail_Swallowed(q) == Decide(q, 200, NoBody, "deleteRow:fail")

\* The handler after the DELETE threw.
AfterDeleteRowFail(q) == Decide(q, 500, NoBody, "deleteRow:fail")

\* DELETE FROM Photos WHERE id = @id
DeleteRowEffect(r) ==
    /\ reqs[r].pc = "deleteRow"
    /\ LET id == reqs[r].input.id
           rows == {p \in Photos : p.id = id}
       IN  \E ok \in BOOLEAN :
             IF ok
             THEN /\ Photos' = Photos \ rows
                  /\ Comments' = IF rows = {} THEN Comments ELSE CascadeDelete(id)
                  /\ Set(r, AfterDeleteRow(reqs[r], Cardinality(rows)))
             ELSE /\ UNCHANGED <<Photos, Comments>>
                  /\ Set(r, AfterDeleteRowFail(reqs[r]))
    /\ UNCHANGED <<containerClient, now, blobs, nextPhotoId, nextCommentId,
                   removed>>

----------------------------------------------------------------------------
(* POST /photos/:id/comments *)

\* As CommentTextEmpty, without the trim.
CommentTextEmpty_NoTrim(text) == Falsy(text)

\* !comment_text || comment_text.trim() === ''
CommentTextEmpty(text) == Falsy(text) \/ Trim(text) = <<>>

\* comment_text.trim() throws a TypeError: the value is truthy and has no
\* trim method.
TrimThrows(text) == text = NotAString

\* What becomes of a request whose handler threw outside its try block, so
\* that the promise of the async handler is rejected: a router that handles
\* rejected promises passes the error to the default error handler, which
\* answers 500; a router that ignores the promise leaves the request
\* without a response.
HandlerRejected(q) ==
    {[q EXCEPT !.pc = "respond", !.status = 500], [q EXCEPT !.pc = "rejected"]}

\* The request arrives: the validation, which is outside the try block.
StartComment(r) ==
    /\ Free(r)
    /\ nextCommentId + InFlight("comment") <= MaxComments
    /\ \E id \in PhotoIds, text \in TextInputs :
         LET q == [IdleReq EXCEPT !.kind = "comment",
                      !.input = [NoInput EXCEPT !.id = id, !.comment_text = text]]
         IN  IF TrimThrows(text)
             THEN \E rejected \in HandlerRejected(q) : Set(r, rejected)
             ELSE IF CommentTextEmpty(text)
             THEN Set(r, [q EXCEPT !.pc = "respond", !.status = 400])
             ELSE Set(r, [q EXCEPT !.pc = "insertComment"])
    /\ UNCHANGED <<containerClient, now, stores>>

\* FOREIGN KEY Comments.photo_id -> Photos(id)
ForeignKeyHolds(photoId) == \E p \in Photos : p.id = photoId

\* err.number of a foreign-key violation
FK_VIOLATION == 547

\* err.number of the other failures of the INSERT: 0 for an error without a
\* number (the rejected poolPromise, a lost connection), 1205 for an error
\* of the server with another number (deadlock victim).
OtherErrorNumbers == {0, 1205}

\* As CommentErrorStatus, without the test of err.number.
CommentErrorStatus_Generic(number) == 500

\* As CommentErrorStatus, but any error of the server counts as not-found.
CommentErrorStatus_AnyNumber(number) == IF number # 0 THEN 404 ELSE 500

\* The catch block of the handler: the status for an error with this number
\* (0: an error without that number).
CommentErrorStatus(number) == IF number = FK_VIOLATION THEN 404 ELSE 500

\* INSERT INTO Comments ... OUTPUT INSERTED.* executes, is rejected by the
\* foreign key, or fails otherwise.
InsertCommentEffect(r) ==
    /\ reqs[r].pc = "insertComment"
    /\ \E ok \in BOOLEAN, number \in OtherErrorNumbers :
         IF ~ok
         THEN /\ UNCHANGED <<Comments, nextCommentId>>
              /\ Set(r, Decide(reqs[r], CommentErrorStatus(number), NoBody,
                               "insertComment:fail"))
         ELSE IF ~ForeignKeyHolds(reqs[r].input.id)
         THEN /\ UNCHANGED <<Comments, nextCommentId>>
              /\ Set(r, Decide(reqs[r], CommentErrorStatus(FK_VIOLATION), NoBody,
                               "insertComment:fk"))
         ELSE LET row == [id |-> nextCommentId, photo_id |-> reqs[r].input.id,
                           created_at |-> now]
              IN  /\ Comments' = Comments \cup {row}
                  /\ nextCommentId' = nextCommentId + 1
                  /\ Set(r, Decide(reqs[r], 201,
                                   [NoBody EXCEPT !.id = row.id,
                                                  !.photo_id = row.photo_id],
                                   "insertComment:ok"))
    /\ UNCHANGED <<containerClient, now, blobs, Photos, nextPhotoId, removed>>

----------------------------------------------------------------------------
(* GET /photos and GET /photos/:id/comments *)

\* As OrderByCreatedAtDesc, but in ascending order.
OrderByCreatedAt_Asc(rows) ==
    LET n == Cardinality(rows)
    IN  {f \in [1..n -> rows] :
           /\ \A i, j \in 1..n : i # j => f[i] # f[j]
           /\ \A i \in 1..(n - 1) : f[i].created_at <= f[i + 1].created_at}

\* ORDER BY created_at DESC: the sequences a recordset of these rows can be
\* (rows with equal created_at come in any order).
OrderByCreatedAtDesc(rows) ==
    LET n == Cardinality(rows)
    IN  {f \in [1..n -> rows] :
           /\ \A i, j \in 1..n : i # j => f[i] # f[j]
           /\ \A i \in 1..(n - 1) : f[i].created_at >= f[i + 1].created_at}

StartListPhotos(r) ==
    /\ Free(r)
    /\ Set(r, [IdleReq EXCEPT !.kind = "listPhotos", !.pc = "selectPhotos"])
    /\ UNCHANGED <<containerClient, now, stores>>

\* SELECT * FROM Photos ORDER BY created_at DESC executes or fails; the
\* handler answers with the recordset, or 500.
SelectPhotosEffect(r) ==
    /\ reqs[r].pc = "selectPhotos"
    /\ \E ok \in BOOLEAN :
         IF ok
         THEN \E recordset \in OrderByCreatedAtDesc(Photos) :
                 Set(r, Decide(reqs[r], 200, [NoBody EXCEPT !.rows = recordset],
                               "selectPhotos:ok"))
         ELSE Set(r, Decide(reqs[r], 500, NoBody, "selectPhotos:fail"))
    /\ UNCHANGED <<containerClient, now, stores>>

StartListComments(r) ==
    /\ Free(r)
    /\ \E id \in PhotoIds :
         Set(r, [IdleReq EXCEPT !.kind = "listComments", !.pc = "selectComments",
                                !.input = [NoInput EXCEPT !.id = id]])
    /\ UNCHANGED <<containerClient, now, stores>>

\* SELECT * FROM Comments WHERE photo_id = @photoId ORDER BY created_at DESC
\* executes or fails; the handler answers with the recordset, or 500.
SelectCommentsEffect(r) ==
    /\ reqs[r].pc = "selectComments"
    /\ \E ok \in BOOLEAN :
         IF ok
         THEN \E recordset \in OrderByCreatedAtDesc(
                                  {c \in Comments : c.photo_id = reqs[r].input.id}) :
                 Set(r, Decide(reqs[r], 200, [NoBody EXCEPT !.rows = recordset],
                               "selectComments:ok"))
         ELSE Set(r, Decide(reqs[r], 500, NoBody, "selectComments:fail"))
    /\ UNCHANGED <<containerClient, now, stores>>

----------------------------------------------------------------------------
(* deleteImageFromBlob called on its own, on any name or url *)

\* Arguments of deleteImageFromBlob: a blob name, a blob name that holds the
\* container name, the url of a blob, and the url of a blob whose name holds
\* "/photos/".
BlobNameOrUrlInputs ==
    {<<"a", ".", "jpg">>,
     <<CONTAINER_NAME, ".", "jpg">>,
     BlobUrl(<<"a", ".", "jpg">>),
     BlobUrl(<<"a">> \o Segment \o <<"b", ".", "jpg">>)}

\* Names of blobs the container may hold.
StoredNames ==
    {<<"a", ".", "jpg">>,
     <<CONTAINER_NAME, ".", "jpg">>,
     <<"a">>,
     <<"a">> \o Segment \o <<"b", ".", "jpg">>}

InitClient ==
    /\ containerClient \in BOOLEAN
    /\ now = 0
    /\ blobs \in SUBSET StoredNames
    /\ Photos = {}
    /\ Comments = {}
    /\ nextPhotoId = 1
    /\ nextCommentId = 1
    /\ removed = {}
    /\ reqs = [r \in Reqs |-> IdleReq]

\* A caller calls deleteImageFromBlob(blobNameOrUrl), or calls it again with
\* the same argument once the call has returned (pc "deleteRow" is the point
\* after the await). Without a client the function returns at once.
CallDeleteImageFromBlob(r) ==
    /\ reqs[r].pc \in {"idle", "deleteRow"}
    /\ \E blobNameOrUrl \in BlobNameOrUrlInputs :
         /\ ~Free(r) => blobNameOrUrl = reqs[r].imageUrl
         /\ LET q == [reqs[r] EXCEPT !.kind = "deleteImageFromBlob",
                                     !.imageUrl = blobNameOrUrl]
            IN  IF ~containerClient
                THEN Set(r, [q EXCEPT !.pc = "deleteRow",
                                      !.calls = @ \cup {"blobDelete:uninit"}])
                ELSE Set(r, [q EXCEPT !.pc = "blobDelete"])
    /\ UNCHANGED <<containerClient, now, stores>>

NextClient ==
    \/ \E r \in Reqs : CallDeleteImageFromBlob(r)
    \/ \E r \in Reqs : BlobDeleteEffect(r)

SpecClient == InitClient /\ [][NextClient]_vars

----------------------------------------------------------------------------

Next ==
    \/ Tick
    \/ \E r \in Reqs : StartCreate(r)
    \/ \E r \in Reqs : PutEffect(r)
    \/ \E r \in Reqs : InsertPhotoEffect(r)
    \/ \E r \in Reqs : StartDelete(r)
    \/ \E r \in Reqs : SelectEffect(r)
    \/ \E r \in Reqs : BlobDeleteEffect(r)
    \/ \E r \in Reqs : DeleteRowEffect(r)
    \/ \E r \in Reqs : StartComment(r)
    \/ \E r \in Reqs : InsertCommentEffect(r)
    \/ \E r \in Reqs : StartListPhotos(r)
    \/ \E r \in Reqs : SelectPhotosEffect(r)
    \/ \E r \in Reqs : StartListComments(r)
    \/ \E r \in Reqs : SelectCommentsEffect(r)
    \/ \E r \in Reqs : Respond(r)

Spec == Init /\ [][Next]_vars

----------------------------------------------------------------------------
(* The handlers when every call of the object store and of the database
   completes *)

\* The calls that threw.
FailedCalls ==
    {"put:fail", "insertPhoto:fail", "select:fail", "blobDelete:fail",
     "deleteRow:fail", "insertComment:fail", "selectPhotos:fail",
     "selectComments:fail"}

\* The call that returns in this step of the request in slot r completes.
Completes(r) == reqs'[r].calls \cap FailedCalls = {}

NextNoFailure ==
    \/ Tick
    \/ \E r \in Reqs : StartCreate(r)
    \/ \E r \in Reqs : PutEffect(r) /\ Completes(r)
    \/ \E r \in Reqs : InsertPhotoEffect(r) /\ Completes(r)
    \/ \E r \in Reqs : StartDelete(r)
    \/ \E r \in Reqs : SelectEffect(r) /\ Completes(r)
    \/ \E r \in Reqs : BlobDeleteEffect(r) /\ Completes(r)
    \/ \E r \in Reqs : DeleteRowEffect(r) /\ Completes(r)
    \/ \E r \in Reqs : StartComment(r)
    \/ \E r \in Reqs : InsertCommentEffect(r) /\ Completes(r)
    \/ \E r \in Reqs : StartListPhotos(r)
    \/ \E r \in Reqs : SelectPhotosEffect(r) /\ Completes(r)
    \/ \E r \in Reqs : StartListComments(r)
    \/ \E r \in Reqs : SelectCommentsEffect(r) /\ Completes(r)
    \/ \E r \in Reqs : Respond(r)

SpecNoFailure == Init /\ [][NextNoFailure]_vars

----------------------------------------------------------------------------
(* The handlers when every call returns and every continuation runs *)

\* The next step of the request in slot r after it arrived: the call it
\* awaits returns, or its response is sent.
Continue(r) ==
    \/ PutEffect(r)
    \/ InsertPhotoEffect(r)
    \/ SelectEffect(r)
    \/ BlobDeleteEffect(r)
    \/ DeleteRowEffect(r)
    \/ InsertCommentEffect(r)
    \/ SelectPhotosEffect(r)
    \/ SelectCommentsEffect(r)
    \/ Respond(r)

SpecFair == Init /\ [][Next]_vars /\ \A r \in Reqs : WF_vars(Continue(r))

----------------------------------------------------------------------------
(* The service started on stores that an earlier run has written *)

\* A photo an earlier run created, with its blob.
StoredPhoto ==
    [id |-> 1,
     image_url |-> BlobUrl(BlobName(-1, 1, <<"sunset", ".", "jpg">>)),
     created_at |-> 0]

\* The module is loaded: the client is created or not, the database and the
\* container hold what the earlier run left.
InitRestart ==
    /\ containerClient \in BOOLEAN
    /\ now = 0
    /\ blobs = {UrlObject(StoredPhoto.image_url)}
    /\ Photos = {StoredPhoto}
    /\ Comments = {}
    /\ nextPhotoId = 2
    /\ nextCommentId = 1
    /\ removed = {}
    /\ reqs = [r \in Reqs |-> IdleReq]

SpecRestart == InitRestart /\ [][Next]_vars

----------------------------------------------------------------------------
(* Properties *)

\* Slot r holds a request of handler k whose response is decided.
Decided(r, k) == reqs[r].kind = k /\ reqs[r].pc = "respond"

\* A step of the request in slot r.
StepOf(r) == reqs'[r] # reqs[r]

\* The object named by the row's image_url does not exist.
Dangling(p) == UrlObject(p.image_url) \notin blobs

\* C1 (as claimed): in every reachable state every Photo row's image_url
\* names an object that exists in the object store.
C1_NoDanglingReference == \A p \in Photos : ~Dangling(p)

\* C1 (amended): in every reachable state every Photo row's image_url names
\* an object that exists in the object store, unless the object-store delete
\* of a delete-photo request has removed that object: a row dangles only
\* after such a delete, never because of a create-photo or an add-comment.
C1_DanglingOnlyAfterBlobDelete ==
    \A p \in Photos : Dangling(p) => UrlObject(p.image_url) \in removed

\* A row whose object exists, next to a row whose object a delete-photo removed.
C1_Witness ==
    \E p, d \in Photos : ~Dangling(p) /\ Dangling(d)

\* C2 (as claimed): whenever create-photo is about to answer 201, the object
\* named by the returned Photo's image_url exists in the object store.
C2_CreatedObjectExistsAtReturn ==
    \A r \in Reqs :
        (Decided(r, "create") /\ reqs[r].status = 201)
            => UrlObject(reqs[r].body.image_url) \in blobs

\* C2 (amended): whenever create-photo is about to answer 201, the object
\* named by the returned Photo's image_url exists in the object store unless
\* the object-store delete of a delete-photo request removed it after the put.
C2_CreatedObjectExistsUnlessDeleted ==
    \A r \in Reqs :
        (Decided(r, "create") /\ reqs[r].status = 201)
            => \/ UrlObject(reqs[r].body.image_url) \in blobs
               \/ UrlObject(reqs[r].body.image_url) \in removed

\* A create-photo about to answer 201 while a delete-photo is in flight and
\* the object of the new Photo exists.
C2_Witness ==
    \E r, d \in Reqs :
        /\ Decided(r, "create") /\ reqs[r].status = 201
        /\ UrlObject(reqs[r].body.image_url) \in blobs
        /\ reqs[d].kind = "delete" /\ reqs[d].pc = "deleteRow"

PutFailed(q) == q.calls \cap {"put:fail", "put:uninit"} # {}

\* C3: a create-photo whose object-store put failed (I/O error, or no client)
\* answers 500 and has called neither a successful put nor insertPhoto; the
\* failing put and every later step of that request leave the Photos, the
\* Comments and the objects as they are.
C3_PutFailureAborts ==
    /\ [](\A r \in Reqs :
            (reqs[r].kind = "create" /\ PutFailed(reqs[r]))
               => /\ reqs[r].pc = "respond" /\ reqs[r].status = 500
                  /\ reqs[r].calls \in {{"put:fail"}, {"put:uninit"}}
                  /\ reqs[r].body = NoBody)
    /\ [][\A r \in Reqs :
            (StepOf(r) /\ (PutFailed(reqs[r]) \/ PutFailed(reqs'[r])))
               => UNCHANGED stores]_vars

\* A create-photo whose put failed with an I/O error is about to answer,
\* while Photos and objects of other requests exist.
C3_Witness ==
    \E r \in Reqs :
        /\ Decided(r, "create") /\ "put:fail" \in reqs[r].calls
        /\ Photos # {} /\ blobs # {}

\* C4: whenever delete-photo(id) is about to answer 200, no Photo row with
\* that id exists and no Comment row has photo_id = id, whatever add-comment
\* requests run at the same time.
C4_DeletedPhotoAndCommentsGone ==
    \A r \in Reqs :
        (Decided(r, "delete") /\ reqs[r].status = 200)
            => /\ SelectImageUrl(reqs[r].input.id) = {}
               /\ \A c \in Comments : c.photo_id # reqs[r].input.id

\* A delete-photo that deleted the row is about to answer 200 while an
\* add-comment on the same photo, whose row was inserted, is about to answer.
C4_Witness ==
    \E r, c \in Reqs :
        /\ Decided(r, "delete") /\ reqs[r].status = 200
        /\ "deleteRow:1" \in reqs[r].calls
        /\ Decided(c, "comment") /\ reqs[c].status = 201
        /\ reqs[c].body.photo_id = reqs[r].input.id

LookupFoundNone(q) == q.kind = "delete" /\ "select:none" \in q.calls

\* C5: a delete-photo whose lookup found no Photo row answers 404 and has
\* made no other store call (no object-store delete, no row-delete); its
\* lookup and every later step of it leave both stores as they are.
C5_DeleteUnknownIsNotFound ==
    /\ [](\A r \in Reqs :
            LookupFoundNone(reqs[r])
               => /\ reqs[r].pc = "respond" /\ reqs[r].status = 404
                  /\ reqs[r].calls = {"select:none"})
    /\ [][\A r \in Reqs :
            (StepOf(r) /\ (LookupFoundNone(reqs[r]) \/ LookupFoundNone(reqs'[r])))
               => UNCHANGED stores]_vars

\* A delete-photo of an unknown id is about to answer while another Photo
\* and its object exist.
C5_Witness ==
    \E r \in Reqs :
        /\ Decided(r, "delete") /\ "select:none" \in reqs[r].calls
        /\ \E p \in Photos : ~Dangling(p)

BlobDeleteOutcomes ==
    {"blobDelete:deleted", "blobDelete:absent", "blobDelete:fail",
     "blobDelete:uninit"}

RowDeleteDone(q) == q.calls \cap {"deleteRow:0", "deleteRow:1"} # {}

\* C6: whatever the outcome of the object-store delete (done, failed with an
\* I/O error, or skipped for want of a client), delete-photo goes on to the
\* row-delete, and it answers 200 whenever the row-delete succeeded.
C6_BlobDeleteNeverFailsDelete ==
    \A r \in Reqs :
        reqs[r].kind = "delete"
            => /\ (reqs[r].calls \cap BlobDeleteOutcomes # {})
                    => \/ reqs[r].pc = "deleteRow"
                       \/ /\ reqs[r].pc = "respond"
                          /\ \/ RowDeleteDone(reqs[r])
                             \/ "deleteRow:fail" \in reqs[r].calls
               /\ RowDeleteDone(reqs[r])
                    => reqs[r].pc = "respond" /\ reqs[r].status = 200

\* A delete-photo whose object-store delete failed is about to answer 200.
C6_Witness ==
    \E r \in Reqs :
        /\ Decided(r, "delete") /\ reqs[r].status = 200
        /\ "blobDelete:fail" \in reqs[r].calls

\* The INSERT of the add-comment in slot r executes in this step.
CommentInsertExecutes(r) ==
    /\ reqs[r].pc = "insertComment"
    /\ reqs'[r].pc = "respond"
    /\ "insertComment:fail" \notin reqs'[r].calls

\* C7: when the INSERT of an add-comment with non-blank text executes while no
\* Photo row has the given id, the request answers 404 and no Comment row is
\* created.
C7_CommentOnUnknownPhotoIsNotFound ==
    [][\A r \in Reqs :
         (CommentInsertExecutes(r) /\ SelectImageUrl(reqs[r].input.id) = {})
            => /\ reqs'[r].status = 404
               /\ reqs'[r].body = NoBody
               /\ Comments' = Comments]_vars

\* An add-comment on a photo without a row is about to answer after its
\* INSERT was rejected.
C7_Witness ==
    \E r \in Reqs :
        /\ Decided(r, "comment") /\ "insertComment:fk" \in reqs[r].calls
        /\ SelectImageUrl(reqs[r].input.id) = {}

\* The text is missing, empty or made of whitespace only.
BlankText(text) ==
    \/ text = Undefined
    \/ \A i \in 1..Len(text) : text[i] = " "

\* C8: an add-comment whose text is missing, empty or whitespace-only answers
\* 400 without any store call, and no step of it changes a store, whether or
\* not the photo exists.
C8_BlankCommentIsInvalidInput ==
    /\ [](\A r \in Reqs :
            (reqs[r].kind = "comment" /\ BlankText(reqs[r].input.comment_text))
               => /\ reqs[r].pc = "respond" /\ reqs[r].status = 400
                  /\ reqs[r].calls = {} /\ reqs[r].body = NoBody)
    /\ [][\A r \in Reqs :
            (StepOf(r) /\ reqs'[r].kind = "comment"
                       /\ BlankText(reqs'[r].input.comment_text))
               => UNCHANGED stores]_vars

\* An add-comment with whitespace-only text on an existing photo is about to
\* answer.
C8_Witness ==
    \E r \in Reqs :
        /\ Decided(r, "comment")
        /\ reqs[r].input.comment_text = <<" ", " ">>
        /\ SelectImageUrl(reqs[r].input.id) # {}

\* C9: in every reachable state every Comment row's photo_id is the id of an
\* existing Photo row; a comment whose INSERT executed before the row-delete
\* is removed with the Photo, and an add-comment whose INSERT found no Photo
\* row answers 404.
C9_CommentsNeverOutliveTheirPhoto ==
    /\ \A c \in Comments : \E p \in Photos : p.id = c.photo_id
    /\ \A r \in Reqs :
         Decided(r, "comment")
            => /\ reqs[r].status = 201
                    => \/ \E c \in Comments :
                             /\ c.id = reqs[r].body.id
                             /\ c.photo_id = reqs[r].body.photo_id
                       \/ SelectImageUrl(reqs[r].body.photo_id) = {}
               /\ "insertComment:fk" \in reqs[r].calls => reqs[r].status = 404

\* An add-comment whose row was inserted is about to answer 201 after a
\* delete-photo removed the Photo and, with it, the Comment.
C9_Witness ==
    \E r \in Reqs :
        /\ Decided(r, "comment") /\ reqs[r].status = 201
        /\ SelectImageUrl(reqs[r].body.photo_id) = {}
        /\ Comments = {}

\* C10 (as claimed): a delete-photo whose DELETE matched no row answers 404.
C10_ZeroRowsDeletedIsNotFound ==
    \A r \in Reqs :
        (Decided(r, "delete") /\ "deleteRow:0" \in reqs[r].calls)
            => reqs[r].status = 404

\* The create-photo in slot r has generated its object name.
HasBlobName(r) == reqs[r].kind = "create" /\ reqs[r].blobName # <<>>

\* C11 (as claimed): any two puts, also two in flight in the same
\* millisecond, have different object names, and no two Photo rows hold the
\* same image_url.
C11_ObjectNamesNeverCollide ==
    /\ \A r, s \in Reqs :
         (r # s /\ HasBlobName(r) /\ HasBlobName(s))
            => reqs[r].blobName # reqs[s].blobName
    /\ \A p, q \in Photos : p.id # q.id => p.image_url # q.image_url

\* C12 (as claimed): a create-photo whose title is missing or empty, or whose
\* file is missing or has zero bytes, answers 400 and makes no store call.
C12_InvalidCreateIsRejected ==
    \A r \in Reqs :
        (/\ reqs[r].kind = "create"
         /\ \/ reqs[r].input.file \in {"none", "empty"}
            \/ Falsy(reqs[r].input.title))
            => /\ reqs[r].pc = "respond" /\ reqs[r].status = 400
               /\ reqs[r].calls = {}

\* The INSERT of the add-comment in slot r fails in this step, rejected by
\* the foreign key or otherwise.
CommentInsertFails(r) ==
    /\ reqs[r].pc = "insertComment"
    /\ reqs'[r].calls \cap {"insertComment:fk", "insertComment:fail"} # {}

\* C16: add-comment answers 404 exactly when its INSERT was rejected by the
\* foreign key; any other failure of the metadata store (an unavailable pool
\* included) answers 500; in both cases no Comment row is created.
C16_OnlyForeignKeyIsNotFound ==
    /\ [](\A r \in Reqs :
            Decided(r, "comment")
               => /\ reqs[r].status = 404 <=> "insertComment:fk" \in reqs[r].calls
                  /\ "insertComment:fail" \in reqs[r].calls
                        => reqs[r].status = 500 /\ reqs[r].body = NoBody)
    /\ [][\A r \in Reqs :
            CommentInsertFails(r)
               => Comments' = Comments /\ nextCommentId' = nextCommentId]_vars

\* An add-comment on an existing photo is about to answer 500 after its
\* INSERT failed.
C16_Witness ==
    \E r \in Reqs :
        /\ Decided(r, "comment") /\ "insertComment:fail" \in reqs[r].calls
        /\ reqs[r].status = 500
        /\ SelectImageUrl(reqs[r].input.id) # {}

RowDeleteFailed(q) == q.kind = "delete" /\ "deleteRow:fail" \in q.calls

InsertFailed(q) == q.kind = "create" /\ "insertPhoto:fail" \in q.calls

\* C18 (as claimed): when the put of a create-photo succeeded and its INSERT
\* failed, the request answers 500 without any further store call (no
\* compensating delete), no Photo row holds the url of the upload, and the
\* uploaded object is in the object store, an orphan.
C18_InsertFailureLeavesOrphan ==
    \A r \in Reqs :
        InsertFailed(reqs[r])
            => /\ reqs[r].pc = "respond" /\ reqs[r].status = 500
               /\ reqs[r].calls = {"put:ok", "insertPhoto:fail"}
               /\ \A p \in Photos : p.image_url # reqs[r].imageUrl
               /\ UrlObject(reqs[r].imageUrl) \in blobs

\* The photo id was assigned once and no Photo row has it.
Gone(id) == id < nextPhotoId /\ \A p \in Photos : p.id # id

\* The SELECT of a list-photos executes in this step.
ListPhotosExecutes(r) ==
    /\ reqs[r].pc = "selectPhotos"
    /\ "selectPhotos:ok" \in reqs'[r].calls

\* C14: when a delete-photo is about to answer 200 its photo is gone, and it
\* stays gone whatever happens next: from then on every list-photos result
\* excludes the id, and every add-comment on the id whose INSERT executes
\* answers 404 and creates no Comment row; a later create-photo never gets
\* the id again.
C14_DeletedPhotoStaysGone ==
    /\ [](\A r \in Reqs :
            (Decided(r, "delete") /\ reqs[r].status = 200)
               => Gone(reqs[r].input.id))
    /\ [][\A id \in PhotoIds :
            Gone(id)
               => /\ Gone(id)'
                  /\ \A r \in Reqs :
                        ListPhotosExecutes(r)
                           => \A i \in DOMAIN reqs'[r].body.rows :
                                 reqs'[r].body.rows[i].id # id
                  /\ \A r \in Reqs :
                        (CommentInsertExecutes(r) /\ reqs[r].input.id = id)
                           => /\ reqs'[r].status = 404
                              /\ Comments' = Comments]_vars

\* After photo id was deleted, a list-photos is about to answer with a photo
\* created later and without id, and an add-comment on id is about to answer
\* 404.
C14_Witness ==
    \E id \in PhotoIds :
        /\ Gone(id)
        /\ \E r \in Reqs :
              /\ Decided(r, "listPhotos") /\ reqs[r].status = 200
              /\ Len(reqs[r].body.rows) > 0
              /\ \A i \in DOMAIN reqs[r].body.rows : reqs[r].body.rows[i].id > id
        /\ \E r \in Reqs :
              /\ Decided(r, "comment") /\ reqs[r].input.id = id
              /\ reqs[r].status = 404

DistinctCreatedAt(rows) ==
    \A p, q \in rows : p # q => p.created_at # q.created_at

\* C15: the recordset of a list-photos is the Photo rows present when its
\* SELECT executes, each once, in non-increasing created_at order; when the
\* rows have pairwise distinct created_at, the row created last (the one with
\* the largest id) is first.
C15_ListPhotosNewestFirst ==
    [][\A r \in Reqs :
         ListPhotosExecutes(r)
            => LET rows == reqs'[r].body.rows
               IN  /\ reqs'[r].status = 200
                   /\ Len(rows) = Cardinality(Photos)
                   /\ {rows[i] : i \in DOMAIN rows} = Photos
                   /\ \A i, j \in DOMAIN rows :
                         i < j => rows[i].created_at >= rows[j].created_at
                   /\ (DistinctCreatedAt(Photos) /\ Photos # {})
                         => \A p \in Photos : p.id <= rows[1].id]_vars

\* A list-photos is about to answer with two photos created at different
\* times, the later one first.
C15_Witness ==
    \E r \in Reqs :
        /\ Decided(r, "listPhotos") /\ reqs[r].status = 200
        /\ Len(reqs[r].body.rows) = 2
        /\ reqs[r].body.rows[1].created_at > reqs[r].body.rows[2].created_at
        /\ reqs[r].body.rows[1].id > reqs[r].body.rows[2].id

\* The store calls that reach the object store.
ObjectStoreCalls ==
    {"put:ok", "put:fail", "blobDelete:deleted", "blobDelete:absent",
     "blobDelete:fail", "blobDelete:uninit"}

\* C20 (as claimed): a step of a delete-photo on id changes no Photo row and no
\* Comment row of another photo and leaves the object of every other photo
\* in place; a step of an add-comment, a list-photos or a list-comments
\* leaves the object store alone, and these requests never call it.
C20_OperationsOnOtherIdsIndependent ==
    [][\A r \in Reqs :
         StepOf(r)
            => /\ reqs[r].kind = "delete"
                    => LET id == reqs[r].input.id
                       IN  /\ {p \in Photos' : p.id # id} = {p \in Photos : p.id # id}
                           /\ {c \in Comments' : c.photo_id # id}
                                 = {c \in Comments : c.photo_id # id}
                           /\ \A p \in Photos :
                                 (p.id # id /\ ~Dangling(p)) => ~Dangling(p)'
               /\ reqs'[r].kind \in {"comment", "listPhotos", "listComments"}
                    => /\ blobs' = blobs
                       /\ reqs'[r].calls \cap ObjectStoreCalls = {}]_vars

\* A call of deleteImageFromBlob on its own is at its deleteIfExists().
ClientDeleteStep(r) ==
    /\ reqs[r].kind = "deleteImageFromBlob"
    /\ reqs[r].pc = "blobDelete"
    /\ StepOf(r)

\* An earlier call of the request completed its deleteIfExists().
Executed(q) == q.calls \cap {"blobDelete:deleted", "blobDelete:absent"} # {}

\* C13: every call of the object-store delete returns to its caller; a call
\* on a name the store does not hold (it never existed, or an earlier call
\* removed it) leaves the store as it is and the store reports no error for
\* the missing blob; so when a call is repeated after a call that the store
\* executed, the store after the second call is the store after the first.
C13_ObjectStoreDeleteIdempotent ==
    [][\A r \in Reqs :
         ClientDeleteStep(r)
            => LET blobName == ExtractBlobName(reqs[r].imageUrl)
                   NoError == reqs[r].calls \cup {"blobDelete:absent",
                                                  "blobDelete:fail"}
               IN  /\ reqs'[r].pc = "deleteRow"
                   /\ blobName \notin blobs
                         => blobs' = blobs /\ reqs'[r].calls \subseteq NoError
                   /\ Executed(reqs[r])
                         => blobs' = blobs /\ reqs'[r].calls \subseteq NoError
                   /\ Executed(reqs'[r]) => blobName \notin blobs']_vars

\* deleteImageFromBlob was called twice in a row on a name the store held:
\* the first call removed the blob, the second found it absent, and neither
\* failed.
C13_Witness ==
    \E r \in Reqs :
        /\ reqs[r].kind = "deleteImageFromBlob" /\ reqs[r].pc = "deleteRow"
        /\ reqs[r].calls = {"blobDelete:deleted", "blobDelete:absent"}

\* The rest of s after the first occurrence of sep in it.
RECURSIVE AfterFirst(_, _)
AfterFirst(s, sep) ==
    IF StartsWith(s, sep) THEN SubSeq(s, Len(sep) + 1, Len(s))
    ELSE AfterFirst(Tail(s), sep)

\* The key the claim says is deleted for the input.
ClaimedKey(input) ==
    IF Includes(input, Segment) THEN AfterFirst(input, Segment) ELSE input

\* C19 (as claimed): when deleteIfExists() completes in a call of
\* deleteImageFromBlob(input), the blob removed is the one named by all of
\* the input after its first "/photos/", or by the whole input when it has
\* no "/photos/".
C19_DeletedKeyIsRemainder ==
    [][\A r \in Reqs :
         (ClientDeleteStep(r) /\ "blobDelete:fail" \notin reqs'[r].calls)
            => blobs' = blobs \ {ClaimedKey(reqs[r].imageUrl)}]_vars

\* No request is in flight.
Quiescent == \A r \in Reqs : Free(r)

\* C21 (as claimed): when no call of either store fails, in every state
\* without a request in flight the objects in the object store are exactly
\* the objects named by the image_url of the Photo rows: no orphan and no
\* dangling reference.
C21_QuiescentStoresAgree ==
    Quiescent => blobs = {UrlObject(p.image_url) : p \in Photos}

\* The SELECT of a list-comments executes in this step.
ListCommentsExecutes(r) ==
    /\ reqs[r].pc = "selectComments"
    /\ "selectComments:ok" \in reqs'[r].calls

\* C22: without an object-store client, a create-photo with valid input
\* answers 500 without a put and without an INSERT, and no step writes a
\* Photo row or touches the object store; a delete-photo that found its row
\* skips the blob delete without an error and goes on to the DELETE, and
\* when the DELETE completed it answers 200 with the row and its comments
\* gone; an add-comment whose INSERT executes on an existing photo creates
\* the row and answers 201, and the two list operations answer 200 with the
\* rows present.
C22_UninitializedClient ==
    /\ [](~containerClient
            => \A r \in Reqs :
                  /\ reqs[r].kind = "create"
                        => /\ reqs[r].pc \notin {"put", "insertPhoto"}
                           /\ (reqs[r].pc = "respond"
                                /\ CreateValidate(reqs[r].input.file,
                                                  reqs[r].input.title) = 0)
                                 => /\ reqs[r].status = 500
                                    /\ reqs[r].calls = {"put:uninit"}
                  /\ reqs[r].kind = "delete"
                        => /\ reqs[r].pc # "blobDelete"
                           /\ reqs[r].calls \cap BlobDeleteOutcomes
                                 \subseteq {"blobDelete:uninit"}
                           /\ "select:found" \in reqs[r].calls
                                 => \/ reqs[r].pc = "deleteRow"
                                    \/ /\ reqs[r].pc = "respond"
                                       /\ \/ RowDeleteDone(reqs[r])
                                          \/ RowDeleteFailed(reqs[r])
                           /\ RowDeleteDone(reqs[r])
                                 => /\ reqs[r].pc = "respond"
                                    /\ reqs[r].status = 200
                                    /\ \A p \in Photos : p.id # reqs[r].input.id
                                    /\ \A c \in Comments :
                                          c.photo_id # reqs[r].input.id)
    /\ [][~containerClient
            => /\ Photos' \subseteq Photos
               /\ blobs' = blobs
               /\ \A r \in Reqs :
                     /\ (CommentInsertExecutes(r)
                          /\ ForeignKeyHolds(reqs[r].input.id))
                           => /\ reqs'[r].status = 201
                              /\ Comments' # Comments
                     /\ ListPhotosExecutes(r)
                           => /\ reqs'[r].status = 200
                              /\ {reqs'[r].body.rows[i] :
                                    i \in DOMAIN reqs'[r].body.rows} = Photos
                     /\ ListCommentsExecutes(r)
                           => /\ reqs'[r].status = 200
                              /\ {reqs'[r].body.rows[i] :
                                    i \in DOMAIN reqs'[r].body.rows}
                                   = {c \in Comments :
                                        c.photo_id = reqs[r].input.id}]_vars

\* Without a client, a create-photo with valid input is about to answer 500
\* and a delete-photo that skipped the blob delete and deleted its row, which
\* had a comment, is about to answer 200; the blob is left in the store.
C22_Witness ==
    /\ ~containerClient
    /\ \E r \in Reqs :
          /\ Decided(r, "create") /\ reqs[r].status = 500
          /\ reqs[r].calls = {"put:uninit"}
    /\ \E r \in Reqs :
          /\ Decided(r, "delete") /\ reqs[r].status = 200
          /\ reqs[r].calls = {"select:found", "blobDelete:uninit", "deleteRow:1"}
    /\ nextCommentId > 1 /\ Comments = {}
    /\ blobs # {}

\* C23 (as claimed): when every store call returns, every request that
\* arrived gets its response; and once a handler has decided its response the
\* only step the request takes is the sending of it, which ends the request.
C23_EveryRequestRespondsOnce ==
    /\ \A r \in Reqs : (~Free(r)) ~> Free(r)
    /\ [][\A r \in Reqs :
            (reqs[r].pc = "respond" /\ StepOf(r)) => reqs'[r] = IdleReq]_vars

====
